---- MODULE Spec2Model ----
(***************************************************************************)
(* Journal-name normalisation (standardize_text), matching                 *)
(* (process_single_file) and the upload session of app.py.                 *)
(*                                                                         *)
(* Text is a TLA+ string; Len, \o and SubSeq act on strings character by   *)
(* character.                                                              *)
(***************************************************************************)
EXTENDS Integers, Sequences, FiniteSets, TLC

(***************************************************************************)
(* Characters                                                              *)
(***************************************************************************)

\* t[i] as a one-character string
At(t, i) == SubSeq(t, i, i)

UpperLetters == "ABCDEFGHIJKLMNOPQRSTUVWXYZ"
LowerLetters == "abcdefghijklmnopqrstuvwxyz"
Digits == "0123456789"

CharsOf(t) == {At(t, i) : i \in 1..Len(t)}

UpperSet == CharsOf(UpperLetters)
LowerSet == CharsOf(LowerLetters)
DigitSet == CharsOf(Digits)

\* str.lower() on one character
LowerTable ==
    [c \in UpperSet |->
        At(LowerLetters, CHOOSE i \in 1..Len(UpperLetters) : At(UpperLetters, i) = c)]

LowerChar(c) == IF c \in UpperSet THEN LowerTable[c] ELSE c

\* the regex class \w
WordCharSet == UpperSet \cup LowerSet \cup DigitSet \cup {"_"}

IsWordChar(c) == c \in WordCharSet

\* the regex class \s, and what str.strip() and str.split() take as whitespace
IsSpace(c) == c \in {" ", "\t", "\n"}

Min(S) == CHOOSE x \in S : \A y \in S : x <= y

(***************************************************************************)
(* standardize_text, statement by statement                                *)
(***************************************************************************)

RECURSIVE MapLower(_)
\* text.lower()
MapLower(t) ==
    IF t = "" THEN "" ELSE LowerChar(At(t, 1)) \o MapLower(Tail(t))

\* text.strip()
Strip(t) ==
    LET keep == {i \in 1..Len(t) : ~IsSpace(At(t, i))}
    IN  IF keep = {} THEN ""
        ELSE SubSeq(t, Min(keep), CHOOSE i \in keep : \A j \in keep : j <= i)

RECURSIVE ReplaceAmp(_)
\* text.replace('&', 'and')
ReplaceAmp(t) ==
    IF t = "" THEN ""
    ELSE (IF At(t, 1) = "&" THEN "and" ELSE At(t, 1)) \o ReplaceAmp(Tail(t))

RECURSIVE SubHyphenColon(_)
\* re.sub(r'[-:]', ' ', text)
SubHyphenColon(t) ==
    IF t = "" THEN ""
    ELSE (IF At(t, 1) \in {"-", ":"} THEN " " ELSE At(t, 1)) \o SubHyphenColon(Tail(t))

\* the literal w occurs in t at position i, compared with re.IGNORECASE
LiteralAt(t, i, w) ==
    /\ i >= 1
    /\ i + Len(w) - 1 <= Len(t)
    /\ \A k \in 1..Len(w) : LowerChar(At(t, i + k - 1)) = At(w, k)

\* (print|online|www|web|issn|doi)
ParenMarkers == <<"print", "online", "www", "web", "issn", "doi">>

\* Where a match of \([^)]*?(print|online|www|web|issn|doi).*?\) that starts at
\* i ends, 0 when none starts there. [^)]*? stays before the first ")" after
\* i, so the marker lies before it and the lazy .*?\) stops at that same ")";
\* "." does not cross a newline.
ParenMatchEnd(t, i) ==
    IF At(t, i) # "(" THEN 0
    ELSE LET closes == {j \in (i + 1)..Len(t) : At(t, j) = ")"}
         IN  IF closes = {} THEN 0
             ELSE LET j == Min(closes)
                  IN  IF \E m \in (i + 1)..(j - 1) : \E n \in 1..Len(ParenMarkers) :
                            /\ LiteralAt(t, m, ParenMarkers[n])
                            /\ m + Len(ParenMarkers[n]) - 1 < j
                            /\ \A k \in (m + Len(ParenMarkers[n]))..(j - 1) :
                                  At(t, k) # "\n"
                      THEN j
                      ELSE 0

RECURSIVE SubParens(_, _)
\* re.sub(r'\([^)]*?(print|online|www|web|issn|doi).*?\)', '', text, flags=re.IGNORECASE)
\* from position i on: leftmost matches, left to right, not overlapping
SubParens(t, i) ==
    LET starts == {m \in i..Len(t) : ParenMatchEnd(t, m) # 0}
    IN  IF starts = {} THEN SubSeq(t, i, Len(t))
        ELSE SubSeq(t, i, Min(starts) - 1)
             \o SubParens(t, ParenMatchEnd(t, Min(starts)) + 1)

JOURNAL_REPLACEMENTS ==
    << [abbr |-> "intl",  full |-> "international"],
       [abbr |-> "int",   full |-> "international"],
       [abbr |-> "natl",  full |-> "national"],
       [abbr |-> "nat",   full |-> "national"],
       [abbr |-> "sci",   full |-> "science"],
       [abbr |-> "med",   full |-> "medical"],
       [abbr |-> "res",   full |-> "research"],
       [abbr |-> "tech",  full |-> "technology"],
       [abbr |-> "eng",   full |-> "engineering"],
       [abbr |-> "phys",  full |-> "physics"],
       [abbr |-> "chem",  full |-> "chemistry"],
       [abbr |-> "bio",   full |-> "biology"],
       [abbr |-> "env",   full |-> "environmental"],
       [abbr |-> "mgmt",  full |-> "management"],
       [abbr |-> "dev",   full |-> "development"],
       [abbr |-> "edu",   full |-> "education"],
       [abbr |-> "univ",  full |-> "university"],
       [abbr |-> "j.",    full |-> "journal"],
       [abbr |-> "jr.",   full |-> "journal"],
       [abbr |-> "jrnl.", full |-> "journal"],
       [abbr |-> "proc.", full |-> "proceedings"],
       [abbr |-> "rev.",  full |-> "review"],
       [abbr |-> "q.",    full |-> "quarterly"] >>

\* the character at i is a word character (none outside the text)
IsWordAt(t, i) == i >= 1 /\ i <= Len(t) /\ IsWordChar(At(t, i))

\* \b between t[i-1] and t[i]
WordBoundary(t, i) == IsWordAt(t, i - 1) # IsWordAt(t, i)

\* rf'\b{abbr}\b' matches at i: the key's text ("\." is a literal dot) between
\* two word boundaries
AbbrMatchAt(t, i, abbr) ==
    /\ LiteralAt(t, i, abbr)
    /\ WordBoundary(t, i)
    /\ WordBoundary(t, i + Len(abbr))

RECURSIVE SubAbbr(_, _, _)
\* re.sub(rf'\b{abbr}\b', full, text, flags=re.IGNORECASE) from position i on:
\* the leftmost match is replaced and the search goes on after it
SubAbbr(t, i, r) ==
    LET starts == {m \in i..Len(t) : AbbrMatchAt(t, m, r.abbr)}
    IN  IF starts = {} THEN SubSeq(t, i, Len(t))
        ELSE SubSeq(t, i, Min(starts) - 1) \o r.full
             \o SubAbbr(t, Min(starts) + Len(r.abbr), r)

RECURSIVE ExpandRange(_, _, _)
\* for abbr, full in JOURNAL_REPLACEMENTS.items(): one substitution per entry,
\* in the dictionary's order; entries k..last applied to t. (Len(u) >= 0 is
\* true: it has TLC work the text out before the next entry is applied.)
ExpandRange(t, k, last) ==
    IF k > last THEN t
    ELSE LET u == SubAbbr(t, 1, JOURNAL_REPLACEMENTS[k])
         IN  IF Len(u) >= 0 THEN ExpandRange(u, k + 1, last) ELSE u

\* the text after the first k entries
ExpandFirst(t, k) == ExpandRange(t, 1, k)

ExpandAbbreviations(t) == ExpandFirst(t, Len(JOURNAL_REPLACEMENTS))

RECURSIVE SubPunct(_)
\* re.sub(r'[^\w\s]', ' ', text)
SubPunct(t) ==
    IF t = "" THEN ""
    ELSE (IF IsWordChar(At(t, 1)) \/ IsSpace(At(t, 1)) THEN At(t, 1) ELSE " ")
         \o SubPunct(Tail(t))

RECURSIVE JoinSplit(_, _)
\* ' '.join(text.split()) from position i on; pending: a word has been emitted
\* and whitespace was seen after it
JoinSplit(t, pending) ==
    IF t = "" THEN ""
    ELSE IF IsSpace(At(t, 1)) THEN JoinSplit(Tail(t), pending)
    ELSE LET stop == {j \in 1..Len(t) : IsSpace(At(t, j))}
             e == IF stop = {} THEN Len(t) ELSE Min(stop) - 1
         IN  (IF pending THEN " " ELSE "") \o SubSeq(t, 1, e)
             \o JoinSplit(SubSeq(t, e + 1, Len(t)), TRUE)

\* the text before the parenthetical substitution
BeforeParens(t) == SubHyphenColon(ReplaceAmp(Strip(MapLower(t))))

\* the text before the abbreviation loop
BeforeAbbreviations(t) == SubParens(BeforeParens(t), 1)

\* variant: the last statement returns text, not ' '.join(text.split())
StandardizeStrNoJoin(t) == SubPunct(ExpandAbbreviations(BeforeAbbreviations(t)))

\* the body of standardize_text for a str argument
StandardizeStr(t) ==
    JoinSplit(SubPunct(ExpandAbbreviations(BeforeAbbreviations(t))), FALSE)


(***************************************************************************)
(* Python values and the lru_cache wrapper of standardize_text             *)
(***************************************************************************)

PyStr(t) == [kind |-> "str", text |-> t]
PyNone == [kind |-> "NoneType", text |-> ""]
PyNaN == [kind |-> "float", text |-> ""]
PyInt == [kind |-> "int", text |-> ""]
PyList == [kind |-> "list", text |-> ""]

\* hash(value) succeeds: lists (like dicts and sets) are unhashable
Hashable(v) == v.kind # "list"

\* the function under the decorator
StandardizeBody(v) ==
    IF v.kind # "str" THEN "" ELSE StandardizeStr(v.text)

\* @lru_cache(maxsize=10000)
LRU_MAXSIZE == 10000

\* One call through the lru_cache wrapper with the cache as it stands: the
\* wrapper hashes the argument to build the cache key (TypeError for an
\* unhashable one, before the body runs), answers a hit from the cache, and on
\* a miss runs the body, stores the result and drops the least recently used
\* entry beyond maxsize. cache: entries, least recently used first.
CachedCall(cache, v) ==
    IF ~Hashable(v)
    THEN [raised |-> TRUE, value |-> "", cache |-> cache]
    ELSE LET hits == {i \in 1..Len(cache) : cache[i].key = v}
         IN  IF hits # {}
             THEN LET h == CHOOSE i \in hits : TRUE
                  IN  [raised |-> FALSE,
                       value  |-> cache[h].value,
                       cache  |-> SubSeq(cache, 1, h - 1)
                                  \o SubSeq(cache, h + 1, Len(cache))
                                  \o <<cache[h]>>]
             ELSE LET r == StandardizeBody(v)
                      c == Append(cache, [key |-> v, value |-> r])
                  IN  [raised |-> FALSE,
                       value  |-> r,
                       cache  |-> IF Len(c) > LRU_MAXSIZE THEN Tail(c) ELSE c]

\* standardize_text(v) as process_single_file sees it: its arguments are str,
\* and a hit returns what the body returned when the entry was stored
standardize_text(v) == CachedCall(<<>>, v).value

(***************************************************************************)
(* Inputs of the normaliser                                                *)
(***************************************************************************)

MaxFrags == 3
MaxCalls == 2

FragPool ==
    {"j.", "Int", " ", "(", ")", "print", "x", "-", "_", "."}

RECURSIVE Compose(_)
\* the texts made of at most n fragments
Compose(n) ==
    IF n = 0 THEN {""}
    ELSE LET shorter == Compose(n - 1)
         IN  shorter \cup {s \o f : s \in shorter, f \in FragPool}

ExampleTexts ==
    {"J. Of Intl. Sci.", "Journal of International Science",
     "Cell Reports (Print)", "Cell Reports",
     "Gut (Website)", "Acta (Series B (Online) 2) Physica",
     "Proc. Natl. Acad. Sci.", "Q. Rev. Bio", "R&D Mgmt: Tech & Eng"}

NormTexts == Compose(MaxFrags) \cup ExampleTexts

NormInputs == {PyStr(t) : t \in NormTexts} \cup {PyNone, PyNaN, PyInt, PyList}

(***************************************************************************)
(* Inputs of process_single_file                                           *)
(***************************************************************************)

MaxUserRows == 2
MaxRefRows == 2

\* cells of the uploaded 'Source title' column
UserCellPool == {PyStr("Soil Biota"), PyStr(" - "), PyNaN}

\* rows of the reference file: Rank, Journal Name, JIF 2024, JIF Quartile
RefRowPool ==
    {<<"1", PyStr("Soil Biota"), "1.1", "Q1">>,
     <<"2", PyStr("SOIL-BIOTA:"), "2.2", "Q2">>,
     <<"3", PyStr("Soil Biote"), "3.3", "Q3">>,
     <<"4", PyStr("Soil Bioto"), "4.4", "Q4">>,
     <<"5", PyStr("Soil Biotic"), "5.5", "Q1">>,
     <<"6", PyStr(""), "6.6", "Q2">>,
     <<"7", PyNaN, "7.7", "Q3">>}

\* cells of the reference file's Journal Name column (column 1, counted from 0)
RefNamePool == {row[2] : row \in RefRowPool}

RECURSIVE SeqsUpTo(_, _)
\* the sequences over S of length at most n
SeqsUpTo(S, n) ==
    IF n = 0 THEN {<<>>}
    ELSE LET shorter == SeqsUpTo(S, n - 1)
         IN  shorter \cup {Append(q, e) : q \in shorter, e \in S}

\* Series.astype(str) on one cell: str(value); a missing cell is the float nan
astype_str(v) ==
    IF v.kind = "str" THEN v.text
    ELSE IF v.kind = "float" THEN "nan"
    ELSE IF v.kind = "NoneType" THEN "None"
    ELSE v.kind

\* the standardized name of a cell: .astype(str).apply(standardize_text)
CellKeyOf(v) == standardize_text(PyStr(astype_str(v)))

\* f, tabulated: TLC keeps [x \in S |-> e] as a rule and evaluates e anew at
\* each application; @@ makes it the table of its values
Tabulated(f) == f @@ <<>>

\* CellKeyOf over the cells of the pools, computed once
CellKeyTable == Tabulated([v \in UserCellPool \cup RefNamePool |-> CellKeyOf(v)])

CellKey(v) == CellKeyTable[v]

(***************************************************************************)
(* fuzz.ratio and process.extractOne as called at the fuzzy-matching line   *)
(***************************************************************************)

\* A score is the exact fraction num/den, den > 0 (the program holds a float).
IntScore(n) == [num |-> n, den |-> 1]

ScoreGE(a, b) == a.num * b.den >= b.num * a.den
ScoreGT(a, b) == a.num * b.den > b.num * a.den
ScoreEQ(a, b) == a.num * b.den = b.num * a.den

Max(S) == CHOOSE x \in S : \A y \in S : y <= x

\* One row of the longest-common-subsequence table from the row before:
\* row[j + 1] is the LCS length of the first string up to its character c and
\* the first j characters of b. Either c is left out (prev[j + 1]) or it is
\* paired with an equal b[k], k <= j, after the LCS of what precedes both.
LcsRow(prev, c, b) ==
    LET row == [j \in 1..(Len(b) + 1) |->
                   Max({prev[j]} \cup
                       {prev[k] + 1 : k \in {k \in 1..(j - 1) : At(b, k) = c}})]
    IN  SubSeq(row, 1, Len(b) + 1)

RECURSIVE LcsFrom(_, _, _, _)
LcsFrom(a, b, i, prev) ==
    IF i > Len(a) THEN prev[Len(b) + 1]
    ELSE LcsFrom(a, b, i + 1, LcsRow(prev, At(a, i), b))

LcsLength(a, b) == LcsFrom(a, b, 1, [j \in 1..(Len(b) + 1) |-> 0])

\* fuzz.ratio(a, b): the normalised Indel similarity,
\* 100 * (1 - (len(a) + len(b) - 2 * lcs) / (len(a) + len(b))), 100 for two
\* empty strings
Ratio(a, b) ==
    IF Len(a) + Len(b) = 0 THEN IntScore(100)
    ELSE [num |-> 200 * LcsLength(a, b), den |-> Len(a) + Len(b)]

\* fuzz.ratio over the standardized names of the pools, computed once
RatioTable ==
    Tabulated([p \in {CellKeyTable[v] : v \in UserCellPool}
                     \X {CellKeyTable[v] : v \in RefNamePool} |->
                  Ratio(p[1], p[2])])

\* scorer=fuzz.ratio
Scorer(query, choice) == RatioTable[<<query, choice>>]

\* score_cutoff=90
SCORE_CUTOFF == 90

\* variant: the cutoff taken as exclusive
PassesCutoffStrict(score, cutoff) == ScoreGT(score, IntScore(cutoff))

\* variant: scores down to ten below the cutoff pass
PassesCutoffLoose(score, cutoff) == ScoreGE(score, IntScore(cutoff - 10))

\* a score passes score_cutoff
PassesCutoff(score, cutoff) == ScoreGE(score, IntScore(cutoff))

\* variant: an equal score replaces the best so far too
ImprovesOrTies(score, best) == ScoreGE(score, best)

\* a later choice replaces the best so far
Improves(score, best) == ScoreGT(score, best)

NoMatch == [found |-> FALSE, choice |-> "", score |-> IntScore(0), index |-> 0]

RECURSIVE ExtractScan(_, _, _, _, _)
\* extractOne's loop over the choices in list order, from choice i on: a
\* choice is taken when its score passes the cutoff and improves on the best
ExtractScan(query, choices, cutoff, i, best) ==
    IF i > Len(choices) THEN best
    ELSE LET score == Scorer(query, choices[i])
         IN  IF PassesCutoff(score, cutoff)
                /\ (~best.found \/ Improves(score, best.score))
             THEN ExtractScan(query, choices, cutoff, i + 1,
                              [found |-> TRUE, choice |-> choices[i],
                               score |-> score, index |-> i])
             ELSE ExtractScan(query, choices, cutoff, i + 1, best)

\* process.extractOne(query, choices, scorer=fuzz.ratio, score_cutoff=cutoff):
\* (choice, score, index) of the best choice, None when no score passes
extractOne(query, choices, cutoff) == ExtractScan(query, choices, cutoff, 1, NoMatch)

VARIABLES
    \* standardize_text and its cache
    norm_pc,        \* "ready" to call, or "returned"
    norm_arg,       \* the argument of the call
    norm_cache,     \* the lru_cache entries, least recently used first
    norm_calls,     \* the calls made: [arg, raised, value]
    \* process_single_file
    user_df,        \* [has_title, cells]: the uploaded frame
    ref_df,         \* the reference frame's rows
    pc,
    journal_list,   \* the standardized queries
    ref_journals,   \* the standardized reference names, in row order
    ref_dict,       \* key -> list of [jif, quartile]
    idx,            \* the row a loop is at
    results,        \* the rows appended so far
    lookups,        \* rows for which "journal in ref_dict" was evaluated
    scored,         \* rows for which process.extractOne was called
    stats,          \* the dict calculate_comprehensive_statistics returned
    \* the script, run after run in one browser session
    session_state,  \* st.session_state: the keys set so far and their values
    uploaded_files, \* what st.file_uploader returns
    script_pc,      \* "waiting" between runs, else the part of the script at hand
    file_i,         \* the position of "for uploaded_file in uploaded_files"
    clear_clicked,  \* st.button(...) returns True in this run
    button_shown,   \* the last run drew the clear button
    run,            \* script runs started
    attempts,       \* calls of read_file/process_single_file since the last clear
    clears          \* times the clear button's branch ran

norm_vars == <<norm_pc, norm_arg, norm_cache, norm_calls>>
proc_vars == <<user_df, ref_df, pc, journal_list, ref_journals, ref_dict, idx,
               results, lookups, scored, stats>>
sess_vars == <<session_state, uploaded_files, script_pc, file_i, clear_clicked,
               button_shown, run, attempts, clears>>
vars == <<norm_pc, norm_arg, norm_cache, norm_calls, user_df, ref_df, pc, journal_list,
          ref_journals, ref_dict, idx, results, lookups, scored, stats,
          session_state, uploaded_files, script_pc, file_i, clear_clicked,
          button_shown, run, attempts, clears>>

EmptyDict == [k \in {} |-> <<>>]

(***************************************************************************)
(* Calls of standardize_text                                               *)
(***************************************************************************)

NormIdle ==
    /\ norm_pc = "ready"
    /\ norm_arg = PyNone
    /\ norm_cache = <<>>
    /\ norm_calls = <<>>

NormInit ==
    /\ norm_pc = "ready"
    /\ norm_arg \in NormInputs
    /\ norm_cache = <<>>
    /\ norm_calls = <<>>

\* standardize_text(norm_arg)
NormCall ==
    /\ norm_pc = "ready"
    /\ Len(norm_calls) < MaxCalls
    /\ \E r \in {CachedCall(norm_cache, norm_arg)} :
           /\ norm_cache' = r.cache
           /\ norm_calls' = Append(norm_calls,
                  [arg |-> norm_arg, raised |-> r.raised, value |-> r.value])
    /\ norm_pc' = "returned"
    /\ UNCHANGED <<norm_arg, proc_vars, sess_vars>>

\* the caller passes the result back in: standardize_text(standardize_text(x))
NormFeedBack ==
    /\ norm_pc = "returned"
    /\ Len(norm_calls) < MaxCalls
    /\ ~norm_calls[Len(norm_calls)].raised
    /\ norm_arg' = PyStr(norm_calls[Len(norm_calls)].value)
    /\ norm_pc' = "ready"
    /\ UNCHANGED <<norm_cache, norm_calls, proc_vars, sess_vars>>

(***************************************************************************)
(* The normaliser: failures, abbreviations, parentheticals, idempotence     *)
(***************************************************************************)

\* the calls made with a str argument
StrCalls == {n \in 1..Len(norm_calls) : norm_calls[n].arg.kind = "str"}

\* C5: standardize_text never raises: every non-string argument, hashable or
\* not, returns the empty string.
C5_NeverRaises ==
    \A n \in 1..Len(norm_calls) :
        /\ ~norm_calls[n].raised
        /\ norm_calls[n].arg.kind # "str" => norm_calls[n].value = ""

\* w occurs in t at i as a whole token: the text starts or whitespace stands
\* before it, and whitespace or the end of the text follows it
TokenAt(t, i, w) ==
    /\ LiteralAt(t, i, w)
    /\ (i = 1 \/ IsSpace(At(t, i - 1)))
    /\ (i + Len(w) - 1 = Len(t) \/ IsSpace(At(t, i + Len(w))))

\* C6: standardize_text("J. Of Intl. Sci.") equals
\* standardize_text("Journal of International Science"), and every dictionary
\* abbreviation, the dotted ones included, that stands as a whole token
\* followed by whitespace or the end of the text (outside any parenthetical)
\* appears as its full word in the result.
C6_AbbreviationsExpand ==
    \A n \in StrCalls :
        LET text == norm_calls[n].arg.text
            out == norm_calls[n].value
        IN  /\ text = "J. Of Intl. Sci."
                  => out = StandardizeStr("Journal of International Science")
            /\ \A k \in 1..Len(JOURNAL_REPLACEMENTS) :
                  (/\ \A i \in 1..Len(text) : At(text, i) \notin {"(", ")"}
                   /\ \E i \in 1..Len(text) :
                         TokenAt(text, i, JOURNAL_REPLACEMENTS[k].abbr))
                  => \E i \in 1..Len(out) :
                         TokenAt(out, i, JOURNAL_REPLACEMENTS[k].full)

\* C7: the abbreviation loop replaces a key only where it is a whole token:
\* wherever the k-th substitution replaces text, no word character stands
\* directly before or directly after the replaced characters, so nothing
\* inside a longer word is replaced and no expansion is glued onto letters.
C7_WholeTokensOnly ==
    \A n \in StrCalls :
        \A k \in 1..Len(JOURNAL_REPLACEMENTS) :
            LET t == ExpandFirst(BeforeAbbreviations(norm_calls[n].arg.text), k - 1)
                abbr == JOURNAL_REPLACEMENTS[k].abbr
            IN  \A i \in 1..Len(t) :
                    AbbrMatchAt(t, i, abbr)
                    => ~IsWordAt(t, i - 1) /\ ~IsWordAt(t, i + Len(abbr))

RECURSIVE CloseOf(_, _, _)
\* the ")" that closes a group whose "(" was passed with depth more "(" open,
\* looking from position j on; 0 when the group is not closed
CloseOf(t, j, depth) ==
    IF j > Len(t) THEN 0
    ELSE IF At(t, j) = "(" THEN CloseOf(t, j + 1, depth + 1)
    ELSE IF At(t, j) = ")"
         THEN (IF depth = 0 THEN j ELSE CloseOf(t, j + 1, depth - 1))
    ELSE CloseOf(t, j + 1, depth)

\* a marker occurs between positions i and j (as the pattern takes it: in any
\* case, inside a longer word too)
MarkerWordIn(t, i, j) ==
    \E m \in (i + 1)..(j - 1) : \E n \in 1..Len(ParenMarkers) :
        /\ LiteralAt(t, m, ParenMarkers[n])
        /\ m + Len(ParenMarkers[n]) - 1 < j

RECURSIVE WithoutMarkedGroups(_, _)
\* t from position i on without the parenthetical groups that contain a
\* marker word (anywhere inside, nested groups included), each dropped from its
\* "(" to its matching ")"
WithoutMarkedGroups(t, i) ==
    IF i > Len(t) THEN ""
    ELSE IF /\ At(t, i) = "("
            /\ CloseOf(t, i + 1, 0) # 0
            /\ MarkerWordIn(t, i, CloseOf(t, i + 1, 0))
         THEN WithoutMarkedGroups(t, CloseOf(t, i + 1, 0) + 1)
    ELSE At(t, i) \o WithoutMarkedGroups(t, i + 1)

\* C8: every parenthetical group that contains a marker word is removed from
\* its opening parenthesis to its matching closing parenthesis, and a group
\* without a marker word keeps its words: the result is the canonical key of
\* the text without exactly those groups.
C8_MarkedGroupsRemoved ==
    \A n \in StrCalls :
        norm_calls[n].value =
            JoinSplit(SubPunct(ExpandAbbreviations(
                WithoutMarkedGroups(BeforeParens(norm_calls[n].arg.text), 1))), FALSE)

\* the text is in canonical form: lower-case letters, digits and underscores
\* in words separated by single spaces, no word an abbreviation the loop
\* would expand
Canonical(t) ==
    /\ \A i \in 1..Len(t) : At(t, i) \in LowerSet \cup DigitSet \cup {"_", " "}
    /\ \A i \in 1..Len(t) :
          At(t, i) = " " => i > 1 /\ i < Len(t) /\ At(t, i + 1) # " "
    /\ \A k \in 1..Len(JOURNAL_REPLACEMENTS) : \A i \in 1..Len(t) :
          ~AbbrMatchAt(t, i, JOURNAL_REPLACEMENTS[k].abbr)

\* C9: standardize_text is idempotent: a result passed back in is returned
\* unchanged, and every result is in canonical form (no expandable
\* abbreviation, no character outside \w other than single inner spaces, no
\* upper-case letter). Calls are only ever appended, so the form is stated of
\* the latest call of each state.
C9_Idempotent ==
    /\ \A n \in StrCalls \cap {Len(norm_calls)} : Canonical(norm_calls[n].value)
    /\ \A n \in 2..Len(norm_calls) :
          norm_calls[n].arg = PyStr(norm_calls[n - 1].value)
          => norm_calls[n].value = norm_calls[n - 1].value

\* a result that differs from its input was passed back in and returned
C9_Witness ==
    /\ Len(norm_calls) >= 2
    /\ norm_calls[1].arg = PyStr("Q. Rev. Bio")
    /\ norm_calls[2].arg = PyStr(norm_calls[1].value)
    /\ norm_calls[2].arg # norm_calls[1].arg
    /\ ~norm_calls[2].raised

(***************************************************************************)
(* process_single_file(user_df, ref_df)                                    *)
(***************************************************************************)

ProcIdle ==
    /\ user_df = [has_title |-> FALSE, cells |-> <<>>]
    /\ ref_df = <<>>
    /\ pc = "find_column"
    /\ journal_list = <<>>
    /\ ref_journals = <<>>
    /\ ref_dict = EmptyDict
    /\ idx = 1
    /\ results = <<>>
    /\ lookups = {}
    /\ scored = {}
    /\ stats = <<>>

ProcInit ==
    /\ user_df \in {[has_title |-> FALSE, cells |-> <<>>]}
                   \cup {[has_title |-> TRUE, cells |-> c] :
                            c \in SeqsUpTo(UserCellPool, MaxUserRows)}
    /\ ref_df \in SeqsUpTo(RefRowPool, MaxRefRows)
    /\ pc = "find_column"
    /\ journal_list = <<>>
    /\ ref_journals = <<>>
    /\ ref_dict = EmptyDict
    /\ idx = 1
    /\ results = <<>>
    /\ lookups = {}
    /\ scored = {}
    /\ stats = <<>>

\* the search for the 'Source title' column; without one the function returns None
FindColumn ==
    /\ pc = "find_column"
    /\ pc' = IF user_df.has_title THEN "standardize" ELSE "returned_none"
    /\ UNCHANGED <<user_df, ref_df, journal_list, ref_journals, ref_dict, idx,
                   results, lookups, scored, stats, norm_vars, sess_vars>>

\* journals = user_df[col].astype(str).apply(standardize_text); column 1 of the
\* reference copy standardized the same way; ref_dict = {}
StandardizeColumns ==
    /\ pc = "standardize"
    /\ journal_list' = [i \in 1..Len(user_df.cells) |-> CellKey(user_df.cells[i])]
    /\ ref_journals' = [i \in 1..Len(ref_df) |-> CellKey(ref_df[i][2])]
    /\ ref_dict' = EmptyDict
    /\ idx' = 1
    /\ pc' = "build"
    /\ UNCHANGED <<user_df, ref_df, results, lookups, scored, stats, norm_vars, sess_vars>>

\* row.iloc[2] if len(row) > 2 else '', row.iloc[3] if len(row) > 3 else ''
RowPayload(row) ==
    [jif      |-> IF Len(row) > 2 THEN row[3] ELSE "",
     quartile |-> IF Len(row) > 3 THEN row[4] ELSE ""]

\* variant: ref_dict[journal] = [payload], replacing what the key held
DictOverwrite(d, journal, payload) ==
    [k \in DOMAIN d \cup {journal} |->
        IF k = journal THEN <<payload>> ELSE d[k]]

\* if journal not in ref_dict: ref_dict[journal] = []
\* ref_dict[journal].append({'jif': jif, 'quartile': quartile})
DictAppend(d, journal, payload) ==
    IF journal \in DOMAIN d
    THEN [d EXCEPT ![journal] = Append(@, payload)]
    ELSE [k \in DOMAIN d \cup {journal} |->
             IF k = journal THEN <<payload>> ELSE d[k]]

\* one iteration of "for idx, row in ref_df_clean.iterrows()"
BuildRefRow ==
    /\ pc = "build"
    /\ idx <= Len(ref_df)
    /\ ref_dict' = DictAppend(ref_dict, ref_journals[idx], RowPayload(ref_df[idx]))
    /\ idx' = idx + 1
    /\ UNCHANGED <<user_df, ref_df, pc, journal_list, ref_journals, results,
                   lookups, scored, stats, norm_vars, sess_vars>>

\* the reference loop is over: ref_journals and journal_list as lists, results = []
StartMatching ==
    /\ pc = "build"
    /\ idx > Len(ref_df)
    /\ results' = <<>>
    /\ idx' = 1
    /\ pc' = "match"
    /\ UNCHANGED <<user_df, ref_df, journal_list, ref_journals, ref_dict,
                   lookups, scored, stats, norm_vars, sess_vars>>

ResultRow(name, best, score, jif, quartile) ==
    [name |-> name, best |-> best, score |-> score, jif |-> jif,
     quartile |-> quartile]

\* variant: only pd.isna(journal), False for a str
IsBlankNaOnly(journal) == FALSE

\* pd.isna(journal) or str(journal).strip() == ""  (journal is a str)
IsBlank(journal) == Strip(journal) = ""

\* variant: the membership test against an empty dictionary
InDictEmpty(journal, d) == journal \in DOMAIN EmptyDict

\* journal in ref_dict
InDict(journal, d) == journal \in DOMAIN d

\* a blank query: ("No journal name", "No match found", 0, "", ""); continue
MatchBlank ==
    /\ pc = "match"
    /\ idx <= Len(journal_list)
    /\ IsBlank(journal_list[idx])
    /\ results' = Append(results,
           ResultRow("No journal name", "No match found", IntScore(0), "", ""))
    /\ idx' = idx + 1
    /\ UNCHANGED <<user_df, ref_df, pc, journal_list, ref_journals, ref_dict,
                   lookups, scored, stats, norm_vars, sess_vars>>

\* the query is a key of ref_dict: score 100 and the key's first payload; continue
MatchExact ==
    /\ pc = "match"
    /\ idx <= Len(journal_list)
    /\ ~IsBlank(journal_list[idx])
    /\ InDict(journal_list[idx], ref_dict)
    /\ LET journal == journal_list[idx]
           match_info == ref_dict[journal][1]
       IN  results' = Append(results,
               ResultRow(journal, journal, IntScore(100), match_info.jif,
                         match_info.quartile))
    /\ lookups' = lookups \cup {idx}
    /\ idx' = idx + 1
    /\ UNCHANGED <<user_df, ref_df, pc, journal_list, ref_journals, ref_dict,
                   scored, stats, norm_vars, sess_vars>>

\* no exact key: process.extractOne over ref_journals with score_cutoff=90
MatchFuzzy ==
    /\ pc = "match"
    /\ idx <= Len(journal_list)
    /\ ~IsBlank(journal_list[idx])
    /\ ~InDict(journal_list[idx], ref_dict)
    /\ LET journal == journal_list[idx]
           match == extractOne(journal, ref_journals, SCORE_CUTOFF)
       IN  results' = Append(results,
               IF match.found
               THEN ResultRow(journal, match.choice, match.score,
                              ref_dict[match.choice][1].jif,
                              ref_dict[match.choice][1].quartile)
               ELSE ResultRow(journal, "No match found", IntScore(0), "", ""))
    /\ lookups' = lookups \cup {idx}
    /\ scored' = scored \cup {idx}
    /\ idx' = idx + 1
    /\ UNCHANGED <<user_df, ref_df, pc, journal_list, ref_journals, ref_dict,
                   stats, norm_vars, sess_vars>>

\* calculate_comprehensive_statistics(results_df, ref_df): the match counts
\* of the returned dict, each the number of rows of results_df[mask]
calculate_comprehensive_statistics(results_df) ==
    LET Rows == 1..Len(results_df)
        score(i) == results_df[i].score
    IN  [total_journals   |-> Len(results_df),
         matched_journals |->
             Cardinality({i \in Rows : ScoreGT(score(i), IntScore(0))}),
         perfect_matches  |->
             Cardinality({i \in Rows : ScoreEQ(score(i), IntScore(100))}),
         good_matches     |->
             Cardinality({i \in Rows : /\ ScoreGE(score(i), IntScore(90))
                                       /\ ScoreGT(IntScore(100), score(i))}),
         no_matches       |->
             Cardinality({i \in Rows : ScoreEQ(score(i), IntScore(0))})]

\* the matching loop is over: results_df = pd.DataFrame(results, ...) and
\* stats = calculate_comprehensive_statistics(results_df, ref_df)
FinishMatching ==
    /\ pc = "match"
    /\ idx > Len(journal_list)
    /\ stats' = calculate_comprehensive_statistics(results)
    /\ pc' = "done"
    /\ UNCHANGED <<user_df, ref_df, journal_list, ref_journals, ref_dict, idx,
                   results, lookups, scored, norm_vars, sess_vars>>

(***************************************************************************)
(* The matching loop: exact keys, threshold, ties, blank queries            *)
(***************************************************************************)

\* the keys of the reference list
RefKeys == {ref_journals[r] : r \in 1..Len(ref_journals)}

\* the reference rows whose fuzz.ratio against q is at least 90
AtLeast90(q) ==
    {r \in 1..Len(ref_journals) :
        Scorer(q, ref_journals[r]).num >= 90 * Scorer(q, ref_journals[r]).den}

\* among rows R, those whose fuzz.ratio against q no row of R exceeds
TopScored(q, R) ==
    {r \in R : \A o \in R :
        ScoreGE(Scorer(q, ref_journals[r]), Scorer(q, ref_journals[o]))}

\* C1: every row whose non-empty normalized query equals a reference key has
\* Best Match equal to that key and Match Score exactly 100, and
\* process.extractOne was not called for it, whatever other keys exist.
C1_ExactMatchWins ==
    \A i \in 1..Len(results) :
        (journal_list[i] # "" /\ journal_list[i] \in RefKeys)
        => /\ results[i].best = journal_list[i]
           /\ results[i].score = IntScore(100)
           /\ i \notin scored

\* an exact row was appended although another key scores at least 90 too
C1_Witness ==
    \E i \in 1..Len(results) :
        /\ journal_list[i] # ""
        /\ journal_list[i] \in RefKeys
        /\ results[i].score = IntScore(100)
        /\ \E r \in AtLeast90(journal_list[i]) : ref_journals[r] # journal_list[i]

\* C2: for a non-empty query with no exact key, the best fuzzy candidate is
\* accepted iff its score is at least 90: then the row carries a top-scored
\* reference key and that score; otherwise it is the no-match row
\* ('No match found', 0, '', '').
C2_ThresholdAccepts ==
    \A i \in 1..Len(results) :
        (journal_list[i] # "" /\ journal_list[i] \notin RefKeys)
        => IF AtLeast90(journal_list[i]) # {}
           THEN /\ \E r \in TopScored(journal_list[i], AtLeast90(journal_list[i])) :
                      /\ results[i].best = ref_journals[r]
                      /\ ScoreEQ(results[i].score,
                                 Scorer(journal_list[i], ref_journals[r]))
                /\ results[i].name = journal_list[i]
           ELSE results[i] =
                  ResultRow(journal_list[i], "No match found", IntScore(0), "", "")

\* a candidate scoring exactly 90 was accepted with that score
C2_Witness ==
    \E i \in 1..Len(results) :
        /\ i \in scored
        /\ results[i].best \in RefKeys
        /\ results[i].score.num = 90 * results[i].score.den

\* C3: when several reference keys tie for the maximum fuzzy score, the row
\* carries the one that comes first in ref_journals, with the first payload
\* stored for it.
C3_FirstOfTiesWins ==
    \A i \in 1..Len(results) :
        (i \in scored /\ AtLeast90(journal_list[i]) # {})
        => LET first == Min(TopScored(journal_list[i], AtLeast90(journal_list[i])))
               firstRow == Min({r \in 1..Len(ref_journals) :
                                   ref_journals[r] = ref_journals[first]})
           IN  /\ results[i].best = ref_journals[first]
               /\ results[i].jif = ref_df[firstRow][3]
               /\ results[i].quartile = ref_df[firstRow][4]

\* two different keys tied for the best score and the earlier one was taken
C3_Witness ==
    \E i \in 1..Len(results) :
        /\ i \in scored
        /\ \E r1, r2 \in TopScored(journal_list[i], AtLeast90(journal_list[i])) :
              /\ r1 < r2
              /\ ref_journals[r1] # ref_journals[r2]
              /\ results[i].best = ref_journals[r1]

\* C4: a query whose normalized form is empty yields the no-match row with
\* Match Score 0, for every reference set, and neither the dictionary lookup
\* nor process.extractOne is reached for it.
C4_BlankQueryNoMatch ==
    \A i \in 1..Len(results) :
        journal_list[i] = ""
        => /\ results[i].best = "No match found"
           /\ results[i].score = IntScore(0)
           /\ results[i].jif = ""
           /\ results[i].quartile = ""
           /\ i \notin lookups
           /\ i \notin scored

\* a blank query was answered while the reference holds the empty key
C4_Witness ==
    \E i \in 1..Len(results) :
        /\ journal_list[i] = ""
        /\ "" \in RefKeys
        /\ "" \in DOMAIN ref_dict

(***************************************************************************)
(* The reference dictionary                                                *)
(***************************************************************************)

RECURSIVE PayloadsOf(_, _)
\* the (jif, quartile) of the first n reference rows whose name standardizes
\* to key, in row order
PayloadsOf(key, n) ==
    IF n = 0 THEN <<>>
    ELSE IF CellKey(ref_df[n][2]) = key
         THEN Append(PayloadsOf(key, n - 1),
                     [jif |-> ref_df[n][3], quartile |-> ref_df[n][4]])
         ELSE PayloadsOf(key, n - 1)

\* the reference rows the dictionary has taken in
RowsBuilt ==
    IF pc = "build" THEN idx - 1
    ELSE IF pc \in {"match", "done"} THEN Len(ref_df)
    ELSE 0

\* C10: the dictionary maps every canonical key to the payloads of all
\* reference rows that normalize to it, in row order: as many payloads as
\* rows, none overwritten.
C10_DictKeepsAllPayloads ==
    /\ DOMAIN ref_dict = {CellKey(ref_df[r][2]) : r \in 1..RowsBuilt}
    /\ \A k \in DOMAIN ref_dict :
          /\ ref_dict[k] = PayloadsOf(k, RowsBuilt)
          /\ Len(ref_dict[k]) =
                Cardinality({r \in 1..RowsBuilt : CellKey(ref_df[r][2]) = k})

\* the dictionary is built and one key holds two different payloads
C10_Witness ==
    /\ pc = "match"
    /\ \E k \in DOMAIN ref_dict :
          /\ Len(ref_dict[k]) >= 2
          /\ ref_dict[k][1] # ref_dict[k][2]

(***************************************************************************)
(* Missing source-title cells                                              *)
(***************************************************************************)

\* C11: every uploaded row whose source-title cell is missing (NaN) gets the
\* no-match row: Best Match 'No match found', Match Score 0, empty JIF and
\* quartile; it is matched to no reference entry, a reference row whose own
\* name is missing included.
C11_MissingCellNoMatch ==
    \A i \in 1..Len(results) :
        user_df.cells[i] = PyNaN
        => /\ results[i].best = "No match found"
           /\ results[i].score = IntScore(0)
           /\ results[i].jif = ""
           /\ results[i].quartile = ""

(***************************************************************************)
(* Match scores and the statistics counted from them                       *)
(***************************************************************************)

\* C14: every row of the results table has a Match Score that is 0 (exactly
\* when Best Match is 'No match found'), 100, or in [90, 100); and the
\* statistics satisfy perfect_matches + good_matches + no_matches =
\* total_journals and matched_journals = total_journals - no_matches.
C14_ScoreRangesPartition ==
    /\ \A i \in 1..Len(results) :
          /\ \/ ScoreEQ(results[i].score, IntScore(0))
             \/ ScoreEQ(results[i].score, IntScore(100))
             \/ /\ ScoreGE(results[i].score, IntScore(90))
                /\ ScoreGT(IntScore(100), results[i].score)
          /\ ScoreEQ(results[i].score, IntScore(0))
                <=> results[i].best = "No match found"
    /\ pc = "done"
          => /\ stats.total_journals = Len(results)
             /\ stats.perfect_matches + stats.good_matches + stats.no_matches
                   = stats.total_journals
             /\ stats.matched_journals = stats.total_journals - stats.no_matches

\* statistics were counted over a table holding a no-match row and a fuzzy
\* row scored exactly 90
C14_Witness ==
    /\ pc = "done"
    /\ stats.no_matches >= 1
    /\ stats.good_matches >= 1
    /\ stats.matched_journals = stats.good_matches
    /\ \E i \in 1..Len(results) :
          /\ i \in scored
          /\ results[i].score.num = 90 * results[i].score.den

(***************************************************************************)
(* The script: session state, the upload loop, the clear button            *)
(***************************************************************************)

\* the most files the uploader holds, and the most script runs
MaxFiles == 2
MaxRuns == 4

\* Uploaded files: name and size as the uploader reports them; readable: the
\* reader parses the bytes; has_title: the frame has a 'Source title' column.
\* The first two share name and size and differ in content.
FilePool ==
    { [name |-> "a.csv",  size |-> "10", readable |-> TRUE,  has_title |-> TRUE],
      [name |-> "a.csv",  size |-> "10", readable |-> TRUE,  has_title |-> FALSE],
      [name |-> "b.XLSX", size |-> "20", readable |-> TRUE,  has_title |-> TRUE],
      [name |-> "c.csv",  size |-> "30", readable |-> FALSE, has_title |-> TRUE] }

\* f"{uploaded_file.name}_{uploaded_file.size}"
file_identifier(f) == f.name \o "_" \o f.size

\* name.split('.')[-1].lower()
Extension(name) ==
    LET dots == {i \in 1..Len(name) : At(name, i) = "."}
    IN  IF dots = {} THEN MapLower(name)
        ELSE MapLower(SubSeq(name, Max(dots) + 1, Len(name)))

\* read_file(file): a frame, or an exception for another extension or for
\* bytes the reader cannot parse
read_file(f) ==
    IF Extension(f.name) \in {"xlsx", "csv"} /\ f.readable
    THEN [raised |-> FALSE, has_title |-> f.has_title]
    ELSE [raised |-> TRUE, has_title |-> FALSE]

\* What the body of the try block comes to for a file: "raised" when
\* read_file raises, "none" when process_single_file returns None (no
\* 'Source title' column), "frame" when it returns the results frame.
Outcome(f) ==
    IF read_file(f).raised THEN "raised"
    ELSE IF ~read_file(f).has_title THEN "none"
    ELSE "frame"

\* variant: the membership test that never finds the identifier
AlreadyProcessedNever(id, processed_files) == FALSE

\* file_identifier in st.session_state.processed_files
AlreadyProcessed(id, processed_files) == id \in processed_files

\* variant: the identifier is not added
MarkProcessedNot(processed_files, id) == processed_files

\* st.session_state.processed_files.add(file_identifier)
MarkProcessed(processed_files, id) == processed_files \cup {id}

\* st.session_state.processed_results[file_identifier] = {...}
StoreResult(processed_results, id, entry) ==
    [k \in DOMAIN processed_results \cup {id} |->
        IF k = id THEN entry ELSE processed_results[k]]

SessIdle ==
    /\ session_state = <<>>
    /\ uploaded_files = <<>>
    /\ script_pc = "off"
    /\ file_i = 1
    /\ clear_clicked = FALSE
    /\ button_shown = FALSE
    /\ run = 0
    /\ attempts = <<>>
    /\ clears = 0

\* a new browser session: no key in st.session_state, nothing uploaded
SessInit ==
    /\ session_state = <<>>
    /\ uploaded_files = <<>>
    /\ script_pc = "waiting"
    /\ file_i = 1
    /\ clear_clicked = FALSE
    /\ button_shown = FALSE
    /\ run = 0
    /\ attempts = <<>>
    /\ clears = 0

\* the sequence s without its i-th element
RemoveAt(s, i) == SubSeq(s, 1, i - 1) \o SubSeq(s, i + 1, Len(s))

\* what one gesture of the user makes of the uploader's files: a file added,
\* a file removed, or the same files (the page loaded, another widget touched)
Gestures(files) ==
    {files}
    \cup (IF Len(files) < MaxFiles THEN {Append(files, f) : f \in FilePool} ELSE {})
    \cup {RemoveAt(files, i) : i \in 1..Len(files)}

\* The user loads the page, changes the uploaded files or touches another
\* widget: the script runs from the top with what the uploader holds now.
Rerun ==
    /\ script_pc = "waiting"
    /\ run < MaxRuns
    /\ uploaded_files' \in Gestures(uploaded_files)
    /\ clear_clicked' = FALSE
    /\ button_shown' = FALSE
    /\ run' = run + 1
    /\ script_pc' = "init"
    /\ UNCHANGED <<session_state, file_i, attempts, clears, norm_vars, proc_vars>>

\* The user clicks the clear button the last run drew: the script runs from
\* the top with the same uploads and st.button returns True. (The run that
\* st.rerun() starts counts too.)
ClickClear ==
    /\ script_pc = "waiting"
    /\ button_shown
    /\ run + 1 < MaxRuns
    /\ clear_clicked' = TRUE
    /\ button_shown' = FALSE
    /\ run' = run + 1
    /\ script_pc' = "init"
    /\ UNCHANGED <<session_state, uploaded_files, file_i, attempts, clears,
                   norm_vars, proc_vars>>

\* if 'processed_files' not in st.session_state: ... = set()
\* if 'processed_results' not in st.session_state: ... = {}
InitSessionState ==
    /\ script_pc = "init"
    /\ session_state' =
          [k \in DOMAIN session_state \cup {"processed_files", "processed_results"} |->
              IF k \in DOMAIN session_state THEN session_state[k]
              ELSE IF k = "processed_files" THEN {} ELSE <<>>]
    /\ script_pc' = "load_reference"
    /\ UNCHANGED <<uploaded_files, file_i, clear_clicked, button_shown, run,
                   attempts, clears, norm_vars, proc_vars>>

\* pd.read_excel(reference_file_url) returns; "if uploaded_files:" follows, and
\* with nothing uploaded the run ends in the else branch
ReferenceLoaded ==
    /\ script_pc = "load_reference"
    /\ file_i' = 1
    /\ script_pc' = IF uploaded_files # <<>> THEN "loop" ELSE "waiting"
    /\ UNCHANGED <<session_state, uploaded_files, clear_clicked, button_shown,
                   run, attempts, clears, norm_vars, proc_vars>>

\* pd.read_excel raises: st.error, st.info, st.stop() end the run
ReferenceFails ==
    /\ script_pc = "load_reference"
    /\ script_pc' = "waiting"
    /\ UNCHANGED <<session_state, uploaded_files, file_i, clear_clicked,
                   button_shown, run, attempts, clears, norm_vars, proc_vars>>

\* the record of one pass through the try block
Attempt(f, outcome) ==
    [id |-> file_identifier(f), outcome |-> outcome, run |-> run, index |-> file_i]

\* the identifier is in processed_files: the body of the if is skipped
SkipProcessed ==
    /\ script_pc = "loop"
    /\ file_i <= Len(uploaded_files)
    /\ AlreadyProcessed(file_identifier(uploaded_files[file_i]),
                        session_state.processed_files)
    /\ file_i' = file_i + 1
    /\ UNCHANGED <<session_state, uploaded_files, script_pc, clear_clicked,
                   button_shown, run, attempts, clears, norm_vars, proc_vars>>

\* read_file and process_single_file return a frame: save_results, the entry
\* of processed_results, processed_files.add
ProcessStored ==
    /\ script_pc = "loop"
    /\ file_i <= Len(uploaded_files)
    /\ LET f == uploaded_files[file_i]
           id == file_identifier(f)
           entry == [results_df    |-> [run |-> run, index |-> file_i],
                     output_file   |-> [run |-> run, index |-> file_i],
                     output_format |-> Extension(f.name),
                     filename      |-> f.name]
       IN  /\ ~AlreadyProcessed(id, session_state.processed_files)
           /\ Outcome(f) = "frame"
           /\ session_state' =
                 [session_state EXCEPT
                     !.processed_results = StoreResult(@, id, entry),
                     !.processed_files = MarkProcessed(@, id)]
           /\ attempts' = Append(attempts, Attempt(f, "frame"))
    /\ file_i' = file_i + 1
    /\ UNCHANGED <<uploaded_files, script_pc, clear_clicked, button_shown, run,
                   clears, norm_vars, proc_vars>>

\* process_single_file returns None: "if results_df is not None" is False
ProcessReturnsNone ==
    /\ script_pc = "loop"
    /\ file_i <= Len(uploaded_files)
    /\ LET f == uploaded_files[file_i]
       IN  /\ ~AlreadyProcessed(file_identifier(f), session_state.processed_files)
           /\ Outcome(f) = "none"
           /\ attempts' = Append(attempts, Attempt(f, "none"))
    /\ file_i' = file_i + 1
    /\ UNCHANGED <<session_state, uploaded_files, script_pc, clear_clicked,
                   button_shown, run, clears, norm_vars, proc_vars>>

\* the try block raises: except Exception ... st.error ... continue
ProcessRaises ==
    /\ script_pc = "loop"
    /\ file_i <= Len(uploaded_files)
    /\ LET f == uploaded_files[file_i]
       IN  /\ ~AlreadyProcessed(file_identifier(f), session_state.processed_files)
           /\ Outcome(f) = "raised"
           /\ attempts' = Append(attempts, Attempt(f, "raised"))
    /\ file_i' = file_i + 1
    /\ UNCHANGED <<session_state, uploaded_files, script_pc, clear_clicked,
                   button_shown, run, clears, norm_vars, proc_vars>>

\* the loop is over, the results are displayed, st.button returns False: the
\* run ends
EndRun ==
    /\ script_pc = "loop"
    /\ file_i > Len(uploaded_files)
    /\ ~clear_clicked
    /\ button_shown' = TRUE
    /\ script_pc' = "waiting"
    /\ UNCHANGED <<session_state, uploaded_files, file_i, clear_clicked, run,
                   attempts, clears, norm_vars, proc_vars>>

\* st.button returns True: processed_files.clear(), processed_results.clear(),
\* st.rerun() ends the run
ClearAll ==
    /\ script_pc = "loop"
    /\ file_i > Len(uploaded_files)
    /\ clear_clicked
    /\ session_state' = [session_state EXCEPT !.processed_files = {},
                                              !.processed_results = <<>>]
    /\ attempts' = <<>>
    /\ clears' = clears + 1
    /\ script_pc' = "rerun"
    /\ UNCHANGED <<uploaded_files, file_i, clear_clicked, button_shown, run,
                   norm_vars, proc_vars>>

\* the run st.rerun() asked for: the script from the top, the same uploads,
\* the button not clicked
RerunAfterClear ==
    /\ script_pc = "rerun"
    /\ clear_clicked' = FALSE
    /\ button_shown' = FALSE
    /\ run' = run + 1
    /\ script_pc' = "init"
    /\ UNCHANGED <<session_state, uploaded_files, file_i, attempts, clears,
                   norm_vars, proc_vars>>

(***************************************************************************)
(* The session: files processed once, the two records in step              *)
(***************************************************************************)

\* the identifiers for which process_single_file has returned a frame since
\* the last clear
FramedIds == {attempts[k].id : k \in {n \in 1..Len(attempts) :
                                          attempts[n].outcome = "frame"}}

\* C12: between two clears, once process_single_file has returned a frame
\* for an identifier, no file with that identifier is read or processed
\* again (so it succeeds at most once per identifier), and the entry stored
\* for the identifier stays the one that call produced.
C12_ProcessedOncePerIdentifier ==
    \A k \in 1..Len(attempts) :
        attempts[k].outcome = "frame"
        => /\ \A j \in (k + 1)..Len(attempts) : attempts[j].id # attempts[k].id
           /\ attempts[k].id \in DOMAIN session_state.processed_results
           /\ session_state.processed_results[attempts[k].id].results_df
                 = [run |-> attempts[k].run, index |-> attempts[k].index]

\* a later run has passed over an uploaded file whose identifier an earlier
\* run processed, with no clear in between
C12_Witness ==
    /\ script_pc = "loop"
    /\ \E k \in 1..Len(attempts) : \E i \in 1..(file_i - 1) :
          /\ attempts[k].outcome = "frame"
          /\ attempts[k].run < run
          /\ i <= Len(uploaded_files)
          /\ file_identifier(uploaded_files[i]) = attempts[k].id

\* a script run has ended: it waits for the user, or st.rerun() ended it
RunEnded == script_pc \in {"waiting", "rerun"} /\ run > 0

\* C13: at the end of every script run processed_files equals the key set of
\* processed_results; both hold exactly the identifiers whose processing
\* returned a frame, so a file that returned None or raised is in neither;
\* such a file does not keep the files after it from being processed; and
\* the clear button's branch leaves both empty.
C13_FilesAndResultsAgree ==
    RunEnded
    => /\ session_state.processed_files = DOMAIN session_state.processed_results
       /\ session_state.processed_files = FramedIds
       /\ button_shown
             => \A i \in 1..Len(uploaded_files) :
                   Outcome(uploaded_files[i]) = "frame"
                   => file_identifier(uploaded_files[i])
                         \in session_state.processed_files
       /\ script_pc = "rerun"
             => /\ session_state.processed_files = {}
                /\ DOMAIN session_state.processed_results = {}

\* after a clear, a run has ended in which a file raised and the file after
\* it was stored
C13_Witness ==
    /\ script_pc = "waiting"
    /\ button_shown
    /\ clears >= 1
    /\ \E k \in 1..(Len(attempts) - 1) :
          /\ attempts[k].outcome \in {"none", "raised"}
          /\ attempts[k].run = run
          /\ attempts[k + 1].outcome = "frame"
          /\ attempts[k + 1].run = run
          /\ attempts[k + 1].id \in session_state.processed_files
          /\ attempts[k].id \notin session_state.processed_files

(***************************************************************************)
(* Specifications                                                         *)
(***************************************************************************)

Init == NormIdle /\ ProcInit /\ SessIdle

Next ==
    \/ FindColumn
    \/ StandardizeColumns
    \/ BuildRefRow
    \/ StartMatching
    \/ MatchBlank
    \/ MatchExact
    \/ MatchFuzzy
    \/ FinishMatching

\* process_single_file on every uploaded frame and reference frame of the pools
Spec == Init /\ [][Next]_vars

InitNorm == NormInit /\ ProcIdle /\ SessIdle

NextNorm ==
    \/ NormCall
    \/ NormFeedBack

\* standardize_text on every input of NormInputs, and again on its result
SpecNorm == InitNorm /\ [][NextNorm]_vars

InitSession == NormIdle /\ ProcIdle /\ SessInit

NextSession ==
    \/ Rerun
    \/ ClickClear
    \/ InitSessionState
    \/ ReferenceLoaded
    \/ ReferenceFails
    \/ SkipProcessed
    \/ ProcessStored
    \/ ProcessReturnsNone
    \/ ProcessRaises
    \/ EndRun
    \/ ClearAll
    \/ RerunAfterClear

\* script runs of one browser session over the files of FilePool
SpecSession == InitSession /\ [][NextSession]_vars

====
